---- MODULE Spec2Model ----
(***************************************************************************)
(* State-machine model of src/app.py: the MeloTTS HTTP facade.             *)
(*                                                                         *)
(* Strings are sequences of one-character strings so that str.upper() and  *)
(* sorted() can be computed character by character.  Python dicts are      *)
(* insertion-ordered sequences of <<key, value>> pairs.  The endpoints are *)
(* plain `def` handlers, which FastAPI runs on worker threads, so each     *)
(* handler is a sequence of steps that may interleave with other workers.  *)
(* The startup hook runs alone, before any request is served.              *)
(***************************************************************************)
EXTENDS Integers, Sequences, FiniteSets, TLC

\* ------------------------------------------------------------ bounds
MaxRequests == 3      \* requests accepted during one run of the process
MaxLoads == 3         \* successful engine loads during one run

Threads == {1, 2}     \* worker threads serving requests
Main == 0             \* the thread that runs the startup hook

\* ------------------------------------------------------------ strings
None == <<"None">>    \* Python's None (no one-character string is "None")

Ord(c) ==
  CASE c = "-" -> 45
    [] c = "B" -> 66 [] c = "E" -> 69 [] c = "N" -> 78 [] c = "Q" -> 81
    [] c = "R" -> 82 [] c = "S" -> 83 [] c = "U" -> 85 [] c = "Z" -> 90
    [] c = "e" -> 101 [] c = "n" -> 110

Chr(n) ==
  CASE n = 45 -> "-"
    [] n = 66 -> "B" [] n = 69 -> "E" [] n = 78 -> "N" [] n = 81 -> "Q"
    [] n = 82 -> "R" [] n = 83 -> "S" [] n = 85 -> "U" [] n = 90 -> "Z"
    [] n = 101 -> "e" [] n = 110 -> "n"

\* str.upper(): a..z map to A..Z, every other character is kept
UpperChar(c) == IF Ord(c) >= 97 /\ Ord(c) <= 122 THEN Chr(Ord(c) - 32) ELSE c

Upper(s) == [i \in DOMAIN s |-> UpperChar(s[i])]

\* s < t on Python strings: code-point order, a proper prefix comes first
RECURSIVE StrLess(_, _)
StrLess(s, t) ==
  IF t = <<>> THEN FALSE
  ELSE IF s = <<>> THEN TRUE
  ELSE IF Ord(Head(s)) # Ord(Head(t)) THEN Ord(Head(s)) < Ord(Head(t))
  ELSE StrLess(Tail(s), Tail(t))

\* insert x into the sorted list l, after the elements equal to it
RECURSIVE InsertSorted(_, _)
InsertSorted(x, l) ==
  IF l = <<>> THEN <<x>>
  ELSE IF StrLess(x, Head(l)) THEN <<x>> \o l
  ELSE <<Head(l)>> \o InsertSorted(x, Tail(l))

\* sorted(list): ascending, stable
RECURSIVE Sorted(_)
Sorted(l) ==
  IF l = <<>> THEN <<>>
  ELSE InsertSorted(l[Len(l)], Sorted(SubSeq(l, 1, Len(l) - 1)))

\* ------------------------------------------------------------ dicts
DictKeys(d) == [i \in DOMAIN d |-> d[i][1]]

KeySet(d) == {d[i][1] : i \in DOMAIN d}

DictHas(d, k) == k \in KeySet(d)

\* d[k], for a key that is present
DictGet(d, k) == d[CHOOSE i \in DOMAIN d : d[i][1] = k][2]

\* d.get(k, default)
DictGetOr(d, k, default) == IF DictHas(d, k) THEN DictGet(d, k) ELSE default

\* d[k] = v: a present key keeps its place, a new key goes last
DictPut(d, k, v) ==
  IF DictHas(d, k)
  THEN [i \in DOMAIN d |-> IF d[i][1] = k THEN <<k, v>> ELSE d[i]]
  ELSE Append(d, <<k, v>>)

\* next(iter(d.keys())), for a non-empty dict
FirstKey(d) == d[1][1]

\* truth value of a str or of None
TruthyStr(s) == s # None /\ s # <<>>

\* ------------------------------------------------------------ settings
DEFAULT_SPEED == 10   \* MELO_DEFAULT_SPEED, in tenths: 1.0
MinTextLen == 1       \* Field(min_length=1)
MaxTextLen == 2000    \* Field(max_length=2000)
MinSpeed == 5         \* Field(ge=0.5), in tenths
MaxSpeed == 20        \* Field(le=2.0), in tenths

EN == <<"E", "N">>
en == <<"e", "n">>
ZZ == <<"Z", "Z">>
EN_US == <<"E", "N", "-", "U", "S">>
EN_BR == <<"E", "N", "-", "B", "R">>
EN_Q == <<"E", "N", "-", "Q">>

\* The environments the process is started in: the defaults of the source,
\* and lower-case or unusual settings of the same variables.
Environments ==
  { [language |-> EN, speaker |-> EN_US, preload |-> <<EN>>],
    [language |-> en, speaker |-> EN_BR, preload |-> <<en>>],
    [language |-> EN, speaker |-> EN_Q,  preload |-> <<ZZ, EN>>],
    [language |-> en, speaker |-> EN_US, preload |-> <<>>] }

\* ------------------------------------------------------------ engine
\* melo.api.TTS is outside the repository: a load either raises or yields a
\* model with a speaker table; a synthesis either raises or writes audio.
EngineLanguages == {EN, ZZ}

\* The spk2id of a language's configuration, in file order.
EngineSpk2Id(lang) ==
  IF lang = EN THEN << <<EN_US, 0>>, <<EN_BR, 1>> >> ELSE <<>>

NoModel == [lang |-> None, id |-> 0]

\* model.hps.data.spk2id: the table object owned by one loaded model
Spk2Id(model) == [owner |-> model.id, map |-> EngineSpk2Id(model.lang)]

\* the literal {} of _speakers.get(lang, {})
EmptyMap == [owner |-> 0, map |-> <<>>]

\* ------------------------------------------------------------ state
VARIABLES
  DEFAULT_LANGUAGE,   \* settings, read once from the environment
  DEFAULT_SPEAKER,
  PRELOAD_LANGUAGES,
  _models,            \* dict: language code -> model handle
  _speakers,          \* dict: language code -> speaker table
  phase,              \* "startup", "serving" or "aborted"
  wi,                 \* warmup: index of the preload entry being processed
  warm,               \* warmup: what was done for each processed entry
  th,                 \* per worker thread: the request and the handler's locals
  nloads,             \* models the engine has constructed so far
  nreq                \* requests accepted so far

vars == << DEFAULT_LANGUAGE, DEFAULT_SPEAKER, PRELOAD_LANGUAGES, _models,
           _speakers, phase, wi, warm, th, nloads, nreq >>

settings == << DEFAULT_LANGUAGE, DEFAULT_SPEAKER, PRELOAD_LANGUAGES >>

NoBody == [text |-> 0, language |-> None, speaker |-> None, speed |-> 0]

NoIter == [used |-> 0, pos |-> 0]

Idle ==
  [ pc |-> "idle", kind |-> "none", body |-> NoBody, arg |-> None, lang |-> None,
    model |-> NoModel, spk_map |-> EmptyMap, speaker |-> None, it |-> NoIter,
    result |-> <<>>, status |-> "none", loads |-> 0, tts |-> <<>>,
    stored |-> {} ]

Init ==
  /\ \E e \in Environments :
       /\ DEFAULT_LANGUAGE = e.language
       /\ DEFAULT_SPEAKER = e.speaker
       /\ PRELOAD_LANGUAGES = e.preload
  /\ _models = <<>>
  /\ _speakers = <<>>
  /\ phase = "startup"
  /\ wi = 1
  /\ warm = <<>>
  /\ th = [t \in Threads \cup {Main} |->
            IF t = Main THEN [Idle EXCEPT !.pc = "warm_next", !.kind = "warmup"]
            ELSE Idle]
  /\ nloads = 0
  /\ nreq = 0

\* ------------------------------------------------------------ scheduling
\* Thread t is about to execute the step named label.  A finished handler only
\* has its response to send, which touches nothing shared, so the response is
\* sent before any thread takes its next step.
At(t, label) ==
  /\ th[t].pc = label
  /\ \A u \in Threads : th[u].pc # "done"

\* ------------------------------------------------------------ load_language
\* where load_language's caller goes on after it returns
AfterLoad(kind) ==
  CASE kind = "warmup" -> "warm_prime"
    [] kind = "voices" -> "voices_iter"
    [] kind = "synthesize" -> "synth_resolve"

\* load_language without line 32: the code is looked up as it was passed
LoadCheck_NoUpper(t) ==
  /\ At(t, "load_check")
  /\ LET lang == th[t].arg IN
       IF DictHas(_models, lang)
       THEN th' = [th EXCEPT ![t].lang = lang,
                             ![t].model = DictGet(_models, lang),
                             ![t].pc = AfterLoad(th[t].kind)]
       ELSE th' = [th EXCEPT ![t].lang = lang, ![t].pc = "load_engine"]
  /\ UNCHANGED << settings, _models, _speakers, phase, wi, warm, nloads, nreq >>

\* lines 32-34: normalise the code, return the cached model on a hit
LoadCheck(t) ==
  /\ At(t, "load_check")
  /\ LET lang == Upper(th[t].arg) IN
       IF DictHas(_models, lang)
       THEN th' = [th EXCEPT ![t].lang = lang,
                             ![t].model = DictGet(_models, lang),
                             ![t].pc = AfterLoad(th[t].kind)]
       ELSE th' = [th EXCEPT ![t].lang = lang, ![t].pc = "load_engine"]
  /\ UNCHANGED << settings, _models, _speakers, phase, wi, warm, nloads, nreq >>

\* line 36: TTS(language=lang, device=DEVICE) constructs a model
LoadEngineOk(t) ==
  /\ At(t, "load_engine")
  /\ th[t].lang \in EngineLanguages
  /\ nloads < MaxLoads
  /\ nloads' = nloads + 1
  /\ th' = [th EXCEPT ![t].model = [lang |-> th[t].lang, id |-> nloads + 1],
                      ![t].loads = @ + 1,
                      ![t].pc = "load_store_models"]
  /\ UNCHANGED << settings, _models, _speakers, phase, wi, warm, nreq >>

\* load_language that registers the language before the engine has loaded it,
\* and leaves the placeholder behind when the load raises
LoadEngineFail_KeepsPlaceholder(t) ==
  /\ At(t, "load_engine")
  /\ th' = [th EXCEPT ![t].loads = @ + 1,
                      ![t].status = "400_invalid_language",
                      ![t].pc = "done"]
  /\ _models' = DictPut(_models, th[t].lang, NoModel)
  /\ phase' = IF t = Main THEN "aborted" ELSE phase
  /\ UNCHANGED << settings, _speakers, wi, warm, nloads, nreq >>

\* lines 36-38: TTS(...) raises; load_language raises HTTPException(400), which
\* ends a request with that status and, in the startup hook, aborts the startup
LoadEngineFail(t) ==
  /\ At(t, "load_engine")
  /\ th' = [th EXCEPT ![t].loads = @ + 1,
                      ![t].status = "400_invalid_language",
                      ![t].pc = "done"]
  /\ phase' = IF t = Main THEN "aborted" ELSE phase
  /\ UNCHANGED << settings, _models, _speakers, wi, warm, nloads, nreq >>

\* line 39: _models[lang] = model
LoadStoreModels(t) ==
  /\ At(t, "load_store_models")
  /\ _models' = DictPut(_models, th[t].lang, th[t].model)
  /\ th' = [th EXCEPT ![t].stored = @ \cup {th[t].lang},
                      ![t].pc = "load_store_speakers"]
  /\ UNCHANGED << settings, _speakers, phase, wi, warm, nloads, nreq >>

\* lines 40-41: _speakers[lang] = model.hps.data.spk2id; return model
LoadStoreSpeakers(t) ==
  /\ At(t, "load_store_speakers")
  /\ _speakers' = DictPut(_speakers, th[t].lang, Spk2Id(th[t].model))
  /\ th' = [th EXCEPT ![t].pc = AfterLoad(th[t].kind)]
  /\ UNCHANGED << settings, _models, phase, wi, warm, nloads, nreq >>

\* ------------------------------------------------------------ warmup
\* lines 46-47: the loop takes the next preload entry and calls load_language;
\* after the last entry the hook returns and the server starts serving
WarmNext ==
  /\ phase = "startup"
  /\ At(Main, "warm_next")
  /\ IF wi <= Len(PRELOAD_LANGUAGES)
     THEN /\ th' = [th EXCEPT ![Main].arg = PRELOAD_LANGUAGES[wi],
                              ![Main].pc = "load_check"]
          /\ phase' = phase
     ELSE /\ th' = [th EXCEPT ![Main].pc = "done", ![Main].status = "started"]
          /\ phase' = "serving"
  /\ UNCHANGED << settings, _models, _speakers, wi, warm, nloads, nreq >>

\* lines 49-56: the speaker the priming synthesis uses, None for no synthesis
PrimeSpeaker(spk_map) ==
  LET first == IF DictHas(spk_map.map, DEFAULT_SPEAKER)
               THEN DEFAULT_SPEAKER ELSE None
  IN IF ~TruthyStr(first) /\ spk_map.map # <<>>
     THEN FirstKey(spk_map.map) ELSE first

\* lines 49-63: look the table up under the entry as configured, pick the
\* speaker, and synthesize "warmup" once; an exception of the synthesis is
\* swallowed, so both outcomes of the engine lead to the next entry
WarmPrime ==
  /\ At(Main, "warm_prime")
  /\ LET lang == PRELOAD_LANGUAGES[wi]
         spk_map == DictGetOr(_speakers, lang, EmptyMap)
         prime_spk == PrimeSpeaker(spk_map)
         call == [model |-> th[Main].model,
                  spk |-> DictGet(spk_map.map, prime_spk),
                  text |-> 6, speed |-> DEFAULT_SPEED]
     IN \E raised \in BOOLEAN :
          /\ warm' = Append(warm,
               [lang |-> lang, model |-> th[Main].model,
                tts |-> IF TruthyStr(prime_spk) THEN <<call>> ELSE <<>>,
                raised |-> TruthyStr(prime_spk) /\ raised])
          /\ TruthyStr(prime_spk) \/ ~raised
  /\ wi' = wi + 1
  /\ th' = [th EXCEPT ![Main].pc = "warm_next"]
  /\ UNCHANGED << settings, _models, _speakers, phase, nloads, nreq >>

\* ------------------------------------------------------------ requests
\* what clients send; an omitted field takes its configured default
Texts == {0, 1, 2000, 2001}          \* len(text)
Speeds == {4, 5, 20, 21}             \* in tenths
Languages == {EN, en, ZZ, None} \cup {DEFAULT_LANGUAGE}
Speakers == {EN_US, EN_BR, EN_Q} \cup {DEFAULT_SPEAKER}

\* every language and speaker with one text and speed, and every text and
\* speed with one language and speaker
Bodies ==
  [text : {2000}, language : Languages, speaker : Speakers, speed : {5}]
    \cup [text : Texts, language : {ZZ}, speaker : {DEFAULT_SPEAKER}, speed : Speeds]

\* SynthesizeIn without min_length
Valid_NoMinLength(body) ==
  /\ body.text <= MaxTextLen
  /\ body.speed >= MinSpeed
  /\ body.speed <= MaxSpeed

\* lines 25-29: the constraints of SynthesizeIn
Valid(body) ==
  /\ body.text >= MinTextLen
  /\ body.text <= MaxTextLen
  /\ body.speed >= MinSpeed
  /\ body.speed <= MaxSpeed

\* a request is handed to the lowest-numbered worker that is free
Free(t) == At(t, "idle")

Accepts(t) ==
  /\ phase = "serving"
  /\ Free(t)
  /\ \A u \in Threads : u < t => ~Free(u)
  /\ nreq < MaxRequests

\* lines 65-67
Healthz(t) ==
  /\ Accepts(t)
  /\ nreq' = nreq + 1
  /\ th' = [th EXCEPT ![t] = [Idle EXCEPT !.kind = "healthz", !.pc = "done",
                                          !.status = "200"]]
  /\ UNCHANGED << settings, _models, _speakers, phase, wi, warm, nloads >>

\* lines 70-73: result = {}, then load_language(DEFAULT_LANGUAGE)
VoicesBegin(t) ==
  /\ Accepts(t)
  /\ nreq' = nreq + 1
  /\ th' = [th EXCEPT ![t] = [Idle EXCEPT !.kind = "voices",
                                          !.arg = DEFAULT_LANGUAGE,
                                          !.pc = "load_check"]]
  /\ UNCHANGED << settings, _models, _speakers, phase, wi, warm, nloads >>

\* line 74: the for statement takes an iterator over _speakers.items(), which
\* remembers the size of the dict
VoicesIter(t) ==
  /\ At(t, "voices_iter")
  /\ th' = [th EXCEPT ![t].it = [used |-> Len(_speakers), pos |-> 0],
                      ![t].pc = "voices_next"]
  /\ UNCHANGED << settings, _models, _speakers, phase, wi, warm, nloads, nreq >>

\* lines 74-76: one step of the iterator.  A dict whose size changed since the
\* iterator was taken makes it raise RuntimeError, which nothing catches (500);
\* otherwise it yields the next item, whose speaker names are listed sorted, or
\* is exhausted and the handler returns the result
VoicesNext(t) ==
  /\ At(t, "voices_next")
  /\ IF Len(_speakers) # th[t].it.used
     THEN th' = [th EXCEPT ![t].status = "500_internal", ![t].pc = "done"]
     ELSE IF th[t].it.pos < Len(_speakers)
     THEN LET item == _speakers[th[t].it.pos + 1] IN
          th' = [th EXCEPT
                   ![t].result = DictPut(@, item[1], Sorted(DictKeys(item[2].map))),
                   ![t].it.pos = @ + 1]
     ELSE th' = [th EXCEPT ![t].status = "200", ![t].pc = "done"]
  /\ UNCHANGED << settings, _models, _speakers, phase, wi, warm, nloads, nreq >>

\* lines 78-81, with the validation FastAPI does before it calls the handler: a
\* body that violates SynthesizeIn is answered 422; language null passes the
\* validation and body.language.upper() raises AttributeError (500)
SynthesizeBegin(t) ==
  /\ Accepts(t)
  /\ nreq' = nreq + 1
  /\ \E body \in Bodies :
       LET new == [Idle EXCEPT !.kind = "synthesize", !.body = body] IN
       th' = [th EXCEPT ![t] =
                IF ~Valid(body)
                THEN [new EXCEPT !.status = "422", !.pc = "done"]
                ELSE IF body.language = None
                THEN [new EXCEPT !.status = "500_internal", !.pc = "done"]
                ELSE [new EXCEPT !.arg = Upper(body.language),
                                 !.pc = "load_check"]]
  /\ UNCHANGED << settings, _models, _speakers, phase, wi, warm, nloads >>

\* lines 82-89: read the language's table, fall back to its first speaker when
\* the requested one is not in it, give up (400) when the table is empty
SynthesizeResolve(t) ==
  /\ At(t, "synth_resolve")
  /\ LET spk_map == DictGetOr(_speakers, th[t].arg, EmptyMap) IN
       IF DictHas(spk_map.map, th[t].body.speaker)
       THEN th' = [th EXCEPT ![t].spk_map = spk_map,
                             ![t].speaker = th[t].body.speaker,
                             ![t].pc = "synth_tts"]
       ELSE IF spk_map.map # <<>>
       THEN th' = [th EXCEPT ![t].spk_map = spk_map,
                             ![t].speaker = FirstKey(spk_map.map),
                             ![t].pc = "synth_tts"]
       ELSE th' = [th EXCEPT ![t].spk_map = spk_map,
                             ![t].status = "400_no_speakers",
                             ![t].pc = "done"]
  /\ UNCHANGED << settings, _models, _speakers, phase, wi, warm, nloads, nreq >>

\* d without the key k
DictWithout(d, k) == SelectSeq(d, LAMBDA e : e[1] # k)

\* synthesize that drops the language from both caches when the synthesis raises
SynthesizeTts_EvictsOnError(t) ==
  /\ At(t, "synth_tts")
  /\ \E raised \in BOOLEAN :
       /\ th' = [th EXCEPT
                   ![t].tts = Append(@, [model |-> th[t].model,
                                         spk |-> DictGet(th[t].spk_map.map, th[t].speaker),
                                         text |-> th[t].body.text,
                                         speed |-> th[t].body.speed]),
                   ![t].status = IF raised THEN "500_tts_failed" ELSE "200",
                   ![t].pc = "done"]
       /\ _models' = IF raised THEN DictWithout(_models, th[t].arg) ELSE _models
       /\ _speakers' = IF raised THEN DictWithout(_speakers, th[t].arg) ELSE _speakers
  /\ UNCHANGED << settings, phase, wi, warm, nloads, nreq >>

\* lines 92-100: model.tts_to_file(...) writes the audio (200) or raises (500)
SynthesizeTts(t) ==
  /\ At(t, "synth_tts")
  /\ \E raised \in BOOLEAN :
       th' = [th EXCEPT
                ![t].tts = Append(@, [model |-> th[t].model,
                                      spk |-> DictGet(th[t].spk_map.map, th[t].speaker),
                                      text |-> th[t].body.text,
                                      speed |-> th[t].body.speed]),
                ![t].status = IF raised THEN "500_tts_failed" ELSE "200",
                ![t].pc = "done"]
  /\ UNCHANGED << settings, _models, _speakers, phase, wi, warm, nloads, nreq >>

\* the response of a finished handler is sent and the worker is free again
Respond(t) ==
  /\ th[t].pc = "done"
  /\ th' = [th EXCEPT ![t] = Idle]
  /\ UNCHANGED << settings, _models, _speakers, phase, wi, warm, nloads, nreq >>

\* ------------------------------------------------------------ specification
Next ==
  \/ WarmNext
  \/ WarmPrime
  \/ \E t \in Threads \cup {Main} :
       \/ LoadCheck(t)
       \/ LoadEngineOk(t)
       \/ LoadEngineFail(t)
       \/ LoadStoreModels(t)
       \/ LoadStoreSpeakers(t)
  \/ \E t \in Threads :
       \/ Healthz(t)
       \/ VoicesBegin(t)
       \/ VoicesIter(t)
       \/ VoicesNext(t)
       \/ SynthesizeBegin(t)
       \/ SynthesizeResolve(t)
       \/ SynthesizeTts(t)
       \/ Respond(t)

Spec == Init /\ [][Next]_vars

\* Requests that do not overlap: a request is accepted only while no worker
\* is inside a handler.
Solo == \A t \in Threads : th[t].pc = "idle"

SeqNext ==
  \/ WarmNext
  \/ WarmPrime
  \/ \E t \in Threads \cup {Main} :
       \/ LoadCheck(t)
       \/ LoadEngineOk(t)
       \/ LoadEngineFail(t)
       \/ LoadStoreModels(t)
       \/ LoadStoreSpeakers(t)
  \/ \E t \in Threads :
       \/ Solo /\ Healthz(t)
       \/ Solo /\ VoicesBegin(t)
       \/ VoicesIter(t)
       \/ VoicesNext(t)
       \/ Solo /\ SynthesizeBegin(t)
       \/ SynthesizeResolve(t)
       \/ SynthesizeTts(t)
       \/ Respond(t)

SeqSpec == Init /\ [][SeqNext]_vars

\* ------------------------------------------------------------ vocabulary
AllThreads == Threads \cup {Main}

Finished(t) == th[t].pc = "done"

Ids(map) == {map[i][2] : i \in DOMAIN map}

\* ------------------------------------------------------------ C1
\* C1: while requests are served, the language codes that are keys of _models
\* are exactly the language codes that are keys of _speakers.
C1_CachesHaveSameKeys ==
  phase = "serving" => KeySet(_models) = KeySet(_speakers)

\* ------------------------------------------------------------ C2
\* C2: a load_language call that finds the upper-cased code in _models returns
\* the stored handle, does not call the engine and changes neither cache; and
\* when calls do not overlap, the engine constructs a model only for a code
\* that is not cached, so at most once per upper-cased code.
C2_LoadIsIdempotent ==
  [][\A t \in AllThreads :
       /\ (th[t].pc = "load_check" /\ th'[t] # th[t]
             /\ DictHas(_models, Upper(th[t].arg)))
          => /\ th'[t].model = DictGet(_models, Upper(th[t].arg))
             /\ th'[t].pc = AfterLoad(th[t].kind)
             /\ th'[t].loads = th[t].loads
             /\ nloads' = nloads
             /\ _models' = _models
             /\ _speakers' = _speakers
       /\ (th'[t].loads # th[t].loads /\ th'[t].loads > 0)
          => ~DictHas(_models, Upper(th[t].arg))]_vars

\* a call with a lower-case code has hit the entry stored under the
\* upper-case code, without a call of the engine
C2_Witness ==
  \E t \in Threads :
    /\ th[t].pc = "voices_iter"
    /\ th[t].arg = en
    /\ th[t].loads = 0
    /\ th[t].model = DictGet(_models, EN)

\* ------------------------------------------------------------ C3
\* C3: a load_language call whose engine load raises ends with the
\* invalid-language error (400), has stored nothing, and leaves both caches as
\* they were, so the language is still not loaded by it.
C3_FailedLoadStoresNothing ==
  [][\A t \in AllThreads :
       (th[t].pc = "load_engine" /\ th'[t].pc # "load_engine"
          /\ th'[t].model = NoModel)
       => /\ th'[t].status = "400_invalid_language"
          /\ th'[t].pc = "done"
          /\ th'[t].stored = {}
          /\ _models' = _models
          /\ _speakers' = _speakers]_vars

\* a load has failed while another language was cached, and the language that
\* failed is in neither cache
C3_Witness ==
  \E t \in Threads :
    /\ Finished(t)
    /\ th[t].status = "400_invalid_language"
    /\ _models # <<>>
    /\ ~DictHas(_models, th[t].lang)
    /\ ~DictHas(_speakers, th[t].lang)

\* ------------------------------------------------------------ C4
ListedErrors ==
  {"422", "400_invalid_language", "400_no_speakers", "500_tts_failed"}

C5_InvalidBodyIs422 ==
  \A t \in Threads :
    (/\ th[t].kind = "synthesize"
     /\ \/ th[t].body.text = 0
        \/ th[t].body.text > 2000
        \/ th[t].body.speed < 5
        \/ th[t].body.speed > 20)
    => /\ Finished(t)
       /\ th[t].status = "422"
       /\ th[t].loads = 0
       /\ th[t].tts = <<>>
       /\ th[t].stored = {}
       /\ th[t].model = NoModel

\* an over-long text was refused while its language was not cached
C5_Witness ==
  \E t \in Threads :
    /\ Finished(t)
    /\ th[t].status = "422"
    /\ th[t].body.text = 2001
    /\ th[t].body.speed = 20
    /\ ~DictHas(_models, Upper(th[t].body.language))

\* ------------------------------------------------------------ C6
\* the one engine call a finished /synthesize request has made, with speaker id
Called(t, id) ==
  th[t].tts = << [model |-> th[t].model, spk |-> id,
                  text |-> th[t].body.text, speed |-> th[t].body.speed] >>

\* C6: a valid /synthesize request whose language is loaded and has a
\* non-empty speaker table is not refused for its speaker: the engine is
\* called exactly once with the requested text and speed and with the id of
\* the requested speaker if the table has it, else the id of some speaker of
\* the table, and the response is 200 (500 only if that synthesis raises).
C6_SpeakerFallback ==
  \A t \in Threads :
    (/\ Finished(t)
     /\ th[t].kind = "synthesize"
     /\ th[t].model # NoModel
     /\ EngineSpk2Id(th[t].model.lang) # <<>>)
    => LET table == EngineSpk2Id(th[t].model.lang) IN
       /\ th[t].status \in {"200", "500_tts_failed"}
       /\ IF DictHas(table, th[t].body.speaker)
          THEN Called(t, DictGet(table, th[t].body.speaker))
          ELSE \E id \in Ids(table) : Called(t, id)

\* ------------------------------------------------------------ C7
\* C7: a finished /voices call has status 200 or 400 invalid language; with
\* 200 its result is not empty, its keys are the language codes cached at that
\* moment, the upper-cased default language among them, and each key maps to
\* the sorted speaker names of that language.
C7_VoicesListsCache ==
  \A t \in Threads :
    (Finished(t) /\ th[t].kind = "voices")
    => /\ th[t].status \in {"200", "400_invalid_language"}
       /\ th[t].status = "200" =>
            /\ th[t].result # <<>>
            /\ KeySet(th[t].result) = KeySet(_models)
            /\ KeySet(th[t].result) = KeySet(_speakers)
            /\ Upper(DEFAULT_LANGUAGE) \in KeySet(th[t].result)
            /\ \A l \in KeySet(th[t].result) :
                 DictGet(th[t].result, l) =
                   Sorted(DictKeys(DictGet(_speakers, l).map))

\* ------------------------------------------------------------ C8
\* C8: once the startup hook has processed a preload entry, the language is
\* loaded and the hook has attempted exactly one synthesis for it, with the
\* default speaker if the language's table has it and else with some speaker
\* of the table, and none only if the table is empty; entries are processed in
\* the configured order.
C8_WarmupPrimesEveryEntry ==
  \A i \in DOMAIN warm :
    LET code == Upper(warm[i].lang)
        table == EngineSpk2Id(code)
    IN /\ warm[i].lang = PRELOAD_LANGUAGES[i]
       /\ DictHas(_models, code)
       /\ IF table = <<>> THEN warm[i].tts = <<>>
          ELSE /\ Len(warm[i].tts) = 1
               /\ warm[i].tts[1].spk =
                    IF DictHas(table, DEFAULT_SPEAKER)
                    THEN DictGet(table, DEFAULT_SPEAKER)
                    ELSE DictGet(table, FirstKey(table))

\* ------------------------------------------------------------ C9
\* C9: a language code that has a handle and a table in the cache keeps that
\* handle and that table in every later state, and wherever a code has both,
\* the table is the one of the handle.
C9_EntriesAreWriteOnce ==
  [][/\ \A l \in KeySet(_models) \cap KeySet(_speakers) :
          /\ DictHas(_models', l) /\ DictHas(_speakers', l)
          /\ DictGet(_models', l) = DictGet(_models, l)
          /\ DictGet(_speakers', l) = DictGet(_speakers, l)
     /\ \A l \in KeySet(_models') \cap KeySet(_speakers') :
          DictGet(_speakers', l) = Spk2Id(DictGet(_models', l))]_vars

\* ------------------------------------------------------------ C10
\* C10: a finished /synthesize request has the no-speakers error exactly when
\* it got a loaded model whose speaker table is empty, and then it has not
\* called the engine's synthesis.
C10_NoSpeakersIffEmptyTable ==
  \A t \in Threads :
    (Finished(t) /\ th[t].kind = "synthesize")
    => /\ th[t].status = "400_no_speakers"
            <=> (th[t].model # NoModel /\ Spk2Id(th[t].model).map = <<>>)
       /\ th[t].status = "400_no_speakers" => th[t].tts = <<>>

====
